---- MODULE Spec2Model ----
(***************************************************************************)
(* A model of qebil/tools/util.py: the integrity-verified downloader       *)
(* (retrieve_ftp_file, check_download_integrity), the document classifier  *)
(* (parse_document) and the accession scanner (scrape_ebi_ids).            *)
(*                                                                         *)
(* Python strings that the code slices, searches or strips are sequences   *)
(* of one-character strings; strings that are only compared (paths,        *)
(* digests, file contents) are TLA+ strings.                               *)
(***************************************************************************)
EXTENDS Integers, Sequences, FiniteSets, TLC

VARIABLES
    files,          \* the local filesystem: path -> content, or NoFile
    call,           \* the last downloader / validator call and how it ended
    tokens,         \* scrape_ebi_ids: the token list passed in
    proj_id_stems,  \* scrape_ebi_ids: the accepted stems passed in
    scan,           \* scrape_ebi_ids: what the call did and returned
    filepath,       \* parse_document: the document reference passed in
    world,          \* parse_document: what the web and the disk hold
    doc             \* parse_document: what the call did and returned

vars == <<files, call, tokens, proj_id_stems, scan, filepath, world, doc>>

Min(a, b) == IF a < b THEN a ELSE b
Max(a, b) == IF a > b THEN a ELSE b

(***************************************************************************)
(* Python values.  A function of util.py returns either a string or the    *)
(* boolean False; False is the string PyFalse here, which no digest and no *)
(* expected checksum of the model equals.                                  *)
(***************************************************************************)
PyFalse == "False"

\* bool(v) of a value that is a str or False: the empty string is falsy too
Truthy(v) == v # PyFalse /\ v # ""

(***************************************************************************)
(* The downloader: retrieve_ftp_file and check_download_integrity          *)
(***************************************************************************)
NoFile == "<no file>"

\* File contents a transfer can leave behind: nothing yet, a truncated
\* file, the whole remote file, a file with a flipped base.
Contents == {"", "@r1 AC", "@r1 ACGT + FFFF", "@r1 ACGA + FFFF"}

\* hashlib.md5(fq_contents).hexdigest(): 32 lowercase hex characters
MD5Hex(c) ==
    CASE c = "" -> "d41d8cd98f00b204e9800998ecf8427e"
      [] c = "@r1 AC" -> "4eeeff6820600deead01d17cd9e5e2b4"
      [] c = "@r1 ACGT + FFFF" -> "0b4b3502d0f22b04a6d818f06723d14c"
      [] c = "@r1 ACGA + FFFF" -> "c7bc8bebcd3ad43caf5ba6c8f2866af9"

\* The remote path, and the local paths a caller saves it to.  The second
\* local path mirrors the remote layout, so that path.isfile(ftp_path) in
\* the failure branch can name a file that exists.
FtpPaths == {"ftp.sra.ebi.ac.uk/vol1/r1.fastq.gz"}
LocalPaths == {"out/r1.fastq.gz", "ftp.sra.ebi.ac.uk/vol1/r1.fastq.gz"}

\* Expected checksums a caller passes: the digest of the whole file, of the
\* truncated one, one in upper case (no hexdigest equals it), and "".
Checksums ==
    {"0b4b3502d0f22b04a6d818f06723d14c", "4eeeff6820600deead01d17cd9e5e2b4",
     "0B4B3502D0F22B04A6D818F06723D14C", ""}

\* What urlretrieve(url, filepath) can do.  urlopen fails before the local
\* file is opened (URLError); the copy loop ends short of Content-Length
\* (ContentTooShortError, a URLError) or the socket read fails
\* (ConnectionResetError, an OSError that is no URLError), both after the
\* local file was opened for writing and holds what was read so far.
URLErrors == {"URLError", "ContentTooShortError"}
Outcomes ==
    [exc : {"none"}, data : Contents]
    \cup [exc : {"URLError"}, data : {NoFile}]
    \cup [exc : {"ContentTooShortError", "ConnectionResetError"},
          data : {"", "@r1 AC"}]

isfile(fs, p) == p \in DOMAIN fs /\ fs[p] # NoFile

\* Mutant: the computed digest is returned without comparing it
check_download_integrity_NoCompare(fs, path, md5_value) ==
    IF isfile(fs, path) THEN MD5Hex(fs[path]) ELSE PyFalse

check_download_integrity(fs, path, md5_value) ==
    IF isfile(fs, path)
    THEN LET local_checksum == MD5Hex(fs[path])
         IN  IF md5_value # local_checksum THEN PyFalse ELSE local_checksum
    ELSE PyFalse

\* urlretrieve("ftp://" + ftp_path, filepath) with outcome o
urlretrieve(fs, path, o) ==
    IF o.data = NoFile THEN fs ELSE [fs EXCEPT ![path] = o.data]

\* Mutant: a mismatch after a clean transfer removes the file and fetches
\* it a second time
Transfer_RetryOnMismatch(fs, ftp_path, path, remote_checksum, o) ==
    LET got == urlretrieve(fs, path, o)
        bad == o.exc = "none"
               /\ check_download_integrity(got, path, remote_checksum) = PyFalse
    IN  IF bad
        THEN [files |-> [got EXCEPT ![path] = NoFile], result |-> PyFalse,
              raised |-> "none", transfers |-> 2]
        ELSE IF o.exc = "none"
        THEN [files |-> got, result |-> remote_checksum, raised |-> "none",
              transfers |-> 1]
        ELSE [files |-> got, result |-> PyFalse, raised |-> "none",
              transfers |-> 1]

\* The branch of retrieve_ftp_file that transfers (lines 93-111): the
\* filesystem after it, what it returns or raises, the transfers issued.
Transfer(fs, ftp_path, path, remote_checksum, o) ==
    LET got == urlretrieve(fs, path, o)
    IN  IF o.exc = "none"
        THEN [files |-> got,
              result |-> check_download_integrity(got, path, remote_checksum),
              raised |-> "none", transfers |-> 1]
        ELSE IF o.exc \in URLErrors
        THEN [files |-> IF isfile(got, ftp_path)
                        THEN [got EXCEPT ![ftp_path] = NoFile]
                        ELSE got,
              result |-> PyFalse, raised |-> "none", transfers |-> 1]
        ELSE [files |-> got, result |-> "<raised>", raised |-> o.exc,
              transfers |-> 1]

\* Mutant: the local copy is never looked at, every call transfers
retrieve_ftp_file_NoSkip(fs, ftp_path, path, remote_checksum, overwrite, o) ==
    Transfer(fs, ftp_path, path, remote_checksum, o)

\* Mutant: an existing local copy is taken as valid without its digest
retrieve_ftp_file_TrustLocal(fs, ftp_path, path, md5, overwrite, o) ==
    IF ~overwrite /\ isfile(fs, path)
    THEN [files |-> fs, result |-> md5, raised |-> "none", transfers |-> 0]
    ELSE Transfer(fs, ftp_path, path, md5, o)

retrieve_ftp_file(fs, ftp_path, path, remote_checksum, overwrite, o) ==
    LET checksum == check_download_integrity(fs, path, remote_checksum)
    IN  IF ~overwrite /\ isfile(fs, path) /\ Truthy(checksum)
        THEN [files |-> fs, result |-> checksum, raised |-> "none",
              transfers |-> 0]
        ELSE Transfer(fs, ftp_path, path, remote_checksum, o)

\* parse_document has nothing to read while the other functions run
NoWorld == [status |-> 0, isfile |-> FALSE, pages |-> <<>>]

NoCall ==
    [op |-> "none", ftp_path |-> "", filepath |-> "", remote_checksum |-> "",
     overwrite |-> FALSE, before |-> NoFile, outcome |-> "skipped",
     data |-> NoFile, result |-> PyFalse, raised |-> "none",
     transfers |-> 0, unchanged |-> TRUE]

\* A caller runs retrieve_ftp_file(ftp_path, path, remote_checksum, overwrite).
\* call records the arguments, the destination's content before the call
\* (before), how the transfer ended (outcome: "skipped" when none was
\* issued, "none" when urlretrieve raised nothing, else the exception), what
\* the transfer wrote (data) and what the call returned or raised.
Retrieve(ftp_path, path, remote_checksum, overwrite, o) ==
    LET r == retrieve_ftp_file(files, ftp_path, path, remote_checksum,
                               overwrite, o)
    IN  /\ files' = r.files
        /\ call' = [op |-> "retrieve", ftp_path |-> ftp_path,
                    filepath |-> path, remote_checksum |-> remote_checksum,
                    overwrite |-> overwrite, before |-> files[path],
                    outcome |-> IF r.transfers = 0 THEN "skipped" ELSE o.exc,
                    data |-> IF r.transfers = 0 THEN NoFile ELSE o.data,
                    result |-> r.result, raised |-> r.raised,
                    transfers |-> r.transfers,
                    unchanged |-> (r.files = files)]
        /\ UNCHANGED <<tokens, proj_id_stems, scan, filepath, world, doc>>

\* A caller runs check_download_integrity(path, md5_value)
CheckIntegrity(path, md5_value) ==
    /\ call' = [op |-> "check", ftp_path |-> "", filepath |-> path,
                remote_checksum |-> md5_value, overwrite |-> FALSE,
                before |-> files[path], outcome |-> "skipped",
                data |-> NoFile,
                result |-> check_download_integrity(files, path, md5_value),
                raised |-> "none", transfers |-> 0, unchanged |-> TRUE]
    /\ UNCHANGED <<files, tokens, proj_id_stems, scan, filepath, world, doc>>

Init ==
    /\ files = [p \in LocalPaths |-> NoFile]
    /\ call = NoCall
    /\ tokens = <<>>
    /\ proj_id_stems = <<>>
    /\ scan = [pc |-> "idle"]
    /\ filepath = <<>>
    /\ world = NoWorld
    /\ doc = [pc |-> "idle"]

Next ==
    \/ \E f \in FtpPaths, p \in LocalPaths, m \in Checksums,
          w \in BOOLEAN, o \in Outcomes : Retrieve(f, p, m, w, o)
    \/ \E p \in LocalPaths, m \in Checksums : CheckIntegrity(p, m)

Spec == Init /\ [][Next]_vars

(***************************************************************************)
(* Python str operations on sequences of characters                        *)
(***************************************************************************)
\* s[a:b] for 0 <= a, 0 <= b
Slice(s, a, b) == SubSeq(s, a + 1, Min(b, Len(s)))

\* s[-n:]
LastChars(s, n) == SubSeq(s, Max(1, Len(s) - n + 1), Len(s))

\* the 0-based positions at which sub occurs in t
Occurrences(t, sub) ==
    {i \in 0..(Len(t) - Len(sub)) : SubSeq(t, i + 1, i + Len(sub)) = sub}

\* sub in t
Contains(sub, t) == Occurrences(t, sub) # {}

\* t.find(sub): the first occurrence, -1 if there is none
Find(t, sub) ==
    IF Occurrences(t, sub) = {} THEN -1
    ELSE CHOOSE i \in Occurrences(t, sub) :
            \A j \in Occurrences(t, sub) : i <= j

RECURSIVE LStrip(_, _)
LStrip(s, chars) ==
    IF s # <<>> /\ Head(s) \in chars THEN LStrip(Tail(s), chars) ELSE s

RECURSIVE RStrip(_, _)
RStrip(s, chars) ==
    IF s # <<>> /\ s[Len(s)] \in chars
    THEN RStrip(SubSeq(s, 1, Len(s) - 1), chars)
    ELSE s

\* s.strip(chars): the characters of chars are removed from both ends
Strip(s, chars) == RStrip(LStrip(s, chars), chars)

Whitespace == {" ", "\t", "\n"}

\* c.isnumeric()
Numeric == {"0", "1", "2", "3", "4", "5", "6", "7", "8", "9"}
isnumeric(c) == c \in Numeric

(***************************************************************************)
(* The accession scanner: scrape_ebi_ids                                   *)
(***************************************************************************)
PRJEB == <<"P", "R", "J", "E", "B">>
PRJNA == <<"P", "R", "J", "N", "A">>
ERP == <<"E", "R", "P">>
SRP == <<"S", "R", "P">>

\* the default of the parameter proj_id_stems
DefaultStems == <<PRJEB, PRJNA, ERP, SRP>>

\* the minimum length of an accession (the "min size filter")
MinSize == 6

\* the status codes the existence endpoint answers with
StatusCodes == {200, 404}

\* The keys of the dict comprehension, in insertion order: every stem that
\* some token contains, at the place of its first appearance in the list.
RECURSIVE DictKeys(_, _, _)
DictKeys(stems, toks, n) ==
    IF n = 0 THEN <<>>
    ELSE LET stem == stems[n]
             rest == DictKeys(stems, toks, n - 1)
         IN  IF /\ \E i \in DOMAIN toks : Contains(stem, toks[i])
                /\ \A j \in 1..(n - 1) : stems[j] # stem
             THEN Append(rest, stem)
             ELSE rest

\* Mutant: the first token containing the stem is kept instead of the last
DictValue_First(stem, toks) ==
    toks[CHOOSE i \in DOMAIN toks :
            /\ Contains(stem, toks[i])
            /\ \A j \in DOMAIN toks : Contains(stem, toks[j]) => i <= j]

\* The value the comprehension leaves under a key: later tokens overwrite
\* earlier ones, so it is the last token that contains the stem.
DictValue(stem, toks) ==
    toks[CHOOSE i \in DOMAIN toks :
            /\ Contains(stem, toks[i])
            /\ \A j \in DOMAIN toks : Contains(stem, toks[j]) => j <= i]

\* potential_tokens = list(potential_tokens.values())
PotentialTokens(toks, stems) ==
    LET keys == DictKeys(stems, toks, Len(stems))
    IN  [k \in 1..Len(keys) |-> DictValue(keys[k], toks)]

\* Mutant: the character after the stem is not tested
Candidate_AnyNextChar(t, stem) ==
    LET start == Find(t, stem)
    IN  IF start # -1 /\ Len(t) >= start + Len(stem) + 1
        THEN <<[token |-> t, stem |-> stem,
                test_study |-> SubSeq(t, start + 1, Len(t))]>>
        ELSE <<>>

\* The body of the inner loop up to the request: the candidate the pair
\* (t, stem) forms, as a list of zero or one elements.
Candidate(t, stem) ==
    LET start == Find(t, stem)
    IN  IF start # -1 /\ Len(t) >= start + Len(stem) + 1
        THEN IF isnumeric(t[start + Len(stem) + 1])
             THEN <<[token |-> t, stem |-> stem,
                     test_study |-> SubSeq(t, start + 1, Len(t))]>>
             ELSE <<>>
        ELSE <<>>

\* The candidates of the two nested loops, in the order they are formed:
\* pair number n is token (n-1) \div |stems| + 1, stem (n-1) % |stems| + 1.
RECURSIVE Candidates(_, _, _)
Candidates(pt, stems, n) ==
    IF n = 0 THEN <<>>
    ELSE Candidates(pt, stems, n - 1)
         \o Candidate(pt[((n - 1) \div Len(stems)) + 1],
                      stems[((n - 1) % Len(stems)) + 1])

\* found_study of a candidate
FoundStudy(test_study) ==
    Strip(Strip(Strip(Strip(test_study, Whitespace), {","}), {"."}), {"-"})

\* found_ebi_ids after the first n requests, status[k] answering request k
RECURSIVE FoundIds(_, _, _)
FoundIds(cands, status, n) ==
    IF n = 0 THEN <<>>
    ELSE LET test_study == cands[n].test_study
             rest == FoundIds(cands, status, n - 1)
         IN  IF status[n] = 200 /\ Len(test_study) >= MinSize
             THEN Append(rest, FoundStudy(test_study))
             ELSE rest

scrape_ebi_ids(toks, stems, status) ==
    LET pt == PotentialTokens(toks, stems)
        cands == Candidates(pt, stems, Len(pt) * Len(stems))
    IN  [pc |-> "done",
         potential_tokens |-> pt,
         requests |-> [k \in 1..Len(cands) |->
                          [token |-> cands[k].token, stem |-> cands[k].stem,
                           test_study |-> cands[k].test_study,
                           status |-> status[k]]],
         found_ebi_ids |-> FoundIds(cands, status, Len(cands))]

\* The number of requests scrape_ebi_ids issues for its arguments
NumRequests(toks, stems) ==
    LET pt == PotentialTokens(toks, stems)
    IN  Len(Candidates(pt, stems, Len(pt) * Len(stems)))

\* A caller runs scrape_ebi_ids(tokens, proj_id_stems); the existence
\* endpoint answers each request with a status code of its own choosing.
Scrape ==
    /\ scan.pc = "start"
    /\ \E status \in [1..NumRequests(tokens, proj_id_stems) -> StatusCodes] :
          scan' = scrape_ebi_ids(tokens, proj_id_stems, status)
    /\ UNCHANGED <<files, call, tokens, proj_id_stems, filepath, world, doc>>

\* Bounds of the scanner's inputs
MaxTokens == 2
MaxDigits == 3
MaxTail == 2

Punctuation == {",", ".", "-"}

RECURSIVE Repeat(_, _)
Repeat(c, n) == IF n = 0 THEN <<>> ELSE <<c>> \o Repeat(c, n - 1)

SeqsUpTo(S, n) == UNION {[1..k -> S] : k \in 0..n}

\* Token bodies: a word without a stem, a stem with a letter after it, a
\* stem whose first occurrence is followed by a letter and whose second by
\* a digit, two stems in one token, a stem inside a token, the longest
\* stem with one digit, and a stem followed by up to MaxDigits digits
\* (by nothing, when there are none).
TokenBodies ==
    {<<"t", "h", "e">>,
     ERP \o <<"s">>,
     ERP \o <<"x">> \o ERP \o <<"1">>,
     ERP \o <<"1">> \o SRP \o <<"2">>,
     <<"(">> \o SRP \o <<"1", "2", "3">>,
     PRJEB \o <<"1">>}
    \cup {ERP \o Repeat("1", n) : n \in 0..MaxDigits}

\* Trailing punctuation in every order and mix, up to MaxTail characters
Tails == SeqsUpTo(Punctuation, MaxTail)

StemLists == {DefaultStems, <<SRP, ERP>>}

\* Token lists of up to MaxTokens tokens, each a body with the tail
InitScan ==
    /\ files = [p \in LocalPaths |-> NoFile]
    /\ call = NoCall
    /\ \E bodies \in SeqsUpTo(TokenBodies, MaxTokens), tail \in Tails :
          tokens = [i \in DOMAIN bodies |-> bodies[i] \o tail]
    /\ proj_id_stems \in StemLists
    /\ scan = [pc |-> "start"]
    /\ filepath = <<>>
    /\ world = NoWorld
    /\ doc = [pc |-> "idle"]

NextScan == Scrape

SpecScan == InitScan /\ [][NextScan]_vars

(***************************************************************************)
(* The document tokenizer: parse_document                                  *)
(***************************************************************************)
DoiPrefix == <<"1", "0", ".", "1">>
DoiResolver ==
    <<"h", "t", "t", "p", "s", ":", "/", "/", "d", "o", "i", ".", "o", "r", "g", "/">>
Htt == <<"h", "t", "t">>
Pdf == <<"p", "d", "f">>

\* the delimiters of the two re.split patterns
TextDelims == {";", ",", ".", " ", "\n", "\t", "<", ">", "/", "\"", "'"}
PdfSpaced == {";", ",", "."}
PdfSingle == {" ", "\n", "\t"}

\* the length of the delimiter that matches at position i (1-based) of
\* text, 0 if none does: r"\; |\, |\. | |\n|\t" for PDF text,
\* r"\;|\,|\.| |\n|\t|<|>|\/|\"|'" otherwise
DelimLen(text, i, pdf) ==
    IF pdf
    THEN IF i < Len(text) /\ text[i] \in PdfSpaced /\ text[i + 1] = " "
         THEN 2
         ELSE IF text[i] \in PdfSingle THEN 1 ELSE 0
    ELSE IF text[i] \in TextDelims THEN 1 ELSE 0

\* re.split(pattern, full_text) from position i on, cur the piece so far
RECURSIVE ReSplit(_, _, _, _)
ReSplit(text, i, cur, pdf) ==
    IF i > Len(text) THEN <<cur>>
    ELSE LET d == DelimLen(text, i, pdf)
         IN  IF d > 0
             THEN <<cur>> \o ReSplit(text, i + d, <<>>, pdf)
             ELSE ReSplit(text, i + 1, Append(cur, text[i]), pdf)

RECURSIVE Concat(_)
Concat(pages) ==
    IF pages = <<>> THEN <<>> ELSE Head(pages) \o Concat(Tail(pages))

DocDone(gets, retrieved, opened, raised, toks) ==
    [pc |-> "done", gets |-> gets, retrieved |-> retrieved,
     opened |-> opened, raised |-> raised, tokens |-> toks]

\* lines 167-169: filepath after the DOI test
Rewritten(path) ==
    IF Slice(path, 0, 3) = DoiPrefix THEN DoiResolver \o path ELSE path

\* parse_document(path) in world w: the HTTP GETs and urlretrieve calls it
\* issues, the local files it opens, and the tokens it returns or the
\* exception it raises.  w.status answers the GET, w.isfile says whether
\* the local path is a file, w.pages is the document's text by page (its
\* concatenation is the body of a document that is no PDF).
parse_document(path, w) ==
    LET fp == Rewritten(path)
        ispdf == LastChars(fp, 3) = Pdf
        full_text == Concat(w.pages)
    IN  IF Slice(fp, 0, 3) = Htt
        THEN IF w.status = 200
             THEN IF ispdf
                  THEN DocDone(<<fp>>, <<fp>>, <<>>, "none",
                               ReSplit(full_text, 1, <<>>, TRUE))
                  ELSE DocDone(<<fp>>, <<>>, <<>>, "none",
                               ReSplit(full_text, 1, <<>>, FALSE))
             ELSE DocDone(<<fp>>, <<>>, <<>>, "none", <<>>)
        ELSE IF ~w.isfile
        THEN DocDone(<<>>, <<>>, <<fp>>, "FileNotFoundError", <<>>)
        ELSE IF ispdf
        THEN IF Len(w.pages) > 0
             THEN DocDone(<<>>, <<>>, <<fp>>, "AttributeError", <<>>)
             ELSE DocDone(<<>>, <<>>, <<fp>>, "none",
                          ReSplit(<<>>, 1, <<>>, TRUE))
        ELSE DocDone(<<>>, <<>>, <<fp>>, "none",
                     ReSplit(full_text, 1, <<>>, FALSE))

\* A caller runs parse_document(filepath)
ParseDocument ==
    /\ doc.pc = "start"
    /\ doc' = parse_document(filepath, world)
    /\ UNCHANGED <<files, call, tokens, proj_id_stems, scan, filepath, world>>

\* Bound of the tokenizer's inputs
MaxPages == 2

\* Document references: a DOI, two URLs and a local path, each as it is,
\* as a PDF and as a text file
DocHeads ==
    {<<"1", "0", ".", "1", "0", "0", "2", "/", "x">>,
     <<"h", "t", "t", "p", ":", "/", "/", "h", "/", "d">>,
     <<"h", "t", "t", "p", "s", ":", "/", "/", "h", "/", "d">>,
     <<"d", "o", "c">>}
DocExts == {<<>>, <<".", "p", "d", "f">>, <<".", "t", "x", "t">>}
DocRefs == {h \o e : h \in DocHeads, e \in DocExts}

PageTexts ==
    {<<"E", "R", "P", "1", ",", " ", "x">>,
     <<"a", ".", "b", ";", "c">>,
     <<"<", "p", ">", "S", "R", "P", "2", ".", " ">>}

InitDoc ==
    /\ files = [p \in LocalPaths |-> NoFile]
    /\ call = NoCall
    /\ tokens = <<>>
    /\ proj_id_stems = <<>>
    /\ scan = [pc |-> "idle"]
    /\ filepath \in DocRefs
    /\ world \in [status : {200, 404}, isfile : BOOLEAN,
                  pages : SeqsUpTo(PageTexts, MaxPages)]
    /\ doc = [pc |-> "start"]

NextDoc == ParseDocument

SpecDoc == InitDoc /\ [][NextDoc]_vars

(***************************************************************************)
(* Properties of the downloader, checked under Spec                        *)
(***************************************************************************)
Digests == {MD5Hex(c) : c \in Contents}

\* The destination held a file whose digest is the expected checksum when
\* the last call began
ValidBefore ==
    call.before # NoFile /\ MD5Hex(call.before) = call.remote_checksum

\* C1: a retrieve_ftp_file call with overwrite=false whose destination
\* already exists with the expected MD5 digest issues no transfer, leaves
\* the filesystem as it was and returns that checksum.  It holds of every
\* call, so of every call of a run of repeated ones.
C1_SkipValidLocal ==
    (call.op = "retrieve" /\ ~call.overwrite /\ ValidBefore)
        => /\ call.transfers = 0
           /\ call.outcome = "skipped"
           /\ call.unchanged
           /\ files[call.filepath] = call.before
           /\ call.raised = "none"
           /\ call.result = call.remote_checksum

C1_Witness ==
    /\ call.op = "retrieve" /\ ~call.overwrite /\ ValidBefore
    /\ call.transfers = 0
    /\ call.result = "0b4b3502d0f22b04a6d818f06723d14c"

\* C2: check_download_integrity returns the file's MD5 digest exactly when
\* the file exists and its digest equals the expected value; otherwise
\* (digest differs, or no file) it returns False, and it does not raise.
C2_DigestIffMatch ==
    call.op = "check"
        => /\ call.raised = "none"
           /\ IF ValidBefore
              THEN call.result = MD5Hex(call.before)
              ELSE call.result = PyFalse
           /\ call.result \in Digests => ValidBefore

C2_Witness ==
    /\ call.op = "check"
    /\ call.before # NoFile
    /\ MD5Hex(call.before) # call.remote_checksum
    /\ call.result = PyFalse

\* C3: every retrieve_ftp_file call ends by returning a digest or False,
\* never by raising, whatever the transport does during the transfer.
C3_NeverRaises ==
    call.op = "retrieve"
        => /\ call.raised = "none"
           /\ call.result \in Digests \cup {PyFalse}

\* C9: a transfer that ends without a transport error but leaves a file
\* whose digest differs from the expected checksum makes the call return
\* False with the transferred file still in place, after exactly one
\* transfer; and no call issues more than one transfer.
C9_MismatchKeepsFileOneTransfer ==
    call.op = "retrieve"
        => /\ call.transfers <= 1
           /\ (call.outcome = "none" /\ MD5Hex(call.data) # call.remote_checksum)
                => /\ call.result = PyFalse
                   /\ call.raised = "none"
                   /\ files[call.filepath] = call.data
                   /\ call.transfers = 1

C9_Witness ==
    /\ call.op = "retrieve"
    /\ call.outcome = "none"
    /\ call.data = "@r1 ACGA + FFFF"
    /\ call.remote_checksum = "0b4b3502d0f22b04a6d818f06723d14c"
    /\ call.result = PyFalse
    /\ files[call.filepath] = "@r1 ACGA + FFFF"

\* C10: whenever a retrieve_ftp_file call returns a value other than
\* False, the value is the expected checksum passed to the call and the
\* destination exists at that moment with that MD5 digest.
C10_SuccessMeansValidFile ==
    (call.op = "retrieve" /\ call.raised = "none" /\ call.result # PyFalse)
        => /\ call.result = call.remote_checksum
           /\ isfile(files, call.filepath)
           /\ MD5Hex(files[call.filepath]) = call.result

\* a partial file is on disk from a failed transfer and a later call with
\* overwrite=false replaced it and succeeded
C10_Witness ==
    /\ call.op = "retrieve" /\ ~call.overwrite
    /\ call.before = "@r1 AC"
    /\ call.transfers = 1
    /\ call.result = "0b4b3502d0f22b04a6d818f06723d14c"
    /\ files[call.filepath] = "@r1 ACGT + FFFF"

(***************************************************************************)
(* Properties of the accession scanner, checked under SpecScan             *)
(***************************************************************************)
Range(f) == {f[i] : i \in DOMAIN f}

\* C5: every accession scrape_ebi_ids returns is at least 6 characters
\* long, whatever the existence checks answered: a confirmed candidate
\* shorter than 6 characters after punctuation stripping is not returned.
C5_FoundAtLeastMinSize ==
    scan.pc = "done"
        => \A k \in DOMAIN scan.found_ebi_ids :
              Len(scan.found_ebi_ids[k]) >= 6

\* C6: no accession scrape_ebi_ids returns ends with ',', '.' or '-',
\* whatever the order and mix of those characters at the candidate's end.
C6_NoTrailingPunctuation ==
    scan.pc = "done"
        => \A k \in DOMAIN scan.found_ebi_ids :
              LET id == scan.found_ebi_ids[k]
              IN  id # <<>> => id[Len(id)] \notin {",", ".", "-"}

\* C7: every existence check scrape_ebi_ids issues is for a token t of the
\* input and an accepted stem s such that s occurs in t, the character
\* right after the first occurrence of s in t exists and is numeric, and
\* the candidate is the suffix of t from that occurrence.  So a token
\* without a stem, or with a stem followed by a non-numeric character or
\* by nothing, has no check issued for that stem.
C7_CheckOnlyStemThenDigit ==
    scan.pc = "done"
        => \A k \in DOMAIN scan.requests :
              LET t == scan.requests[k].token
                  s == scan.requests[k].stem
              IN  /\ t \in Range(tokens)
                  /\ s \in Range(proj_id_stems)
                  /\ \E i \in 1..Len(t) :
                        /\ i + Len(s) <= Len(t)
                        /\ SubSeq(t, i, i + Len(s) - 1) = s
                        /\ \A j \in 1..(i - 1) :
                              SubSeq(t, j, j + Len(s) - 1) # s
                        /\ t[i + Len(s)] \in Numeric
                        /\ scan.requests[k].test_study = SubSeq(t, i, Len(t))

\* a candidate that is a proper suffix of its token was checked, and a
\* carried token whose stem is followed by a letter had no check at all
C7_Witness ==
    /\ scan.pc = "done"
    /\ \E k \in DOMAIN scan.requests :
          /\ scan.requests[k].token = <<"(">> \o SRP \o <<"1", "2", "3">>
          /\ scan.requests[k].test_study = SRP \o <<"1", "2", "3">>
    /\ ERP \o <<"s">> \in Range(scan.potential_tokens)
    /\ \A k \in DOMAIN scan.requests : scan.requests[k].token # ERP \o <<"s">>

\* x is the last token of the input that contains stem s
IsLastWith(s, x) ==
    \E i \in DOMAIN tokens :
        /\ tokens[i] = x
        /\ Contains(s, x)
        /\ \A j \in DOMAIN tokens : j > i => ~Contains(s, tokens[j])

\* C8 as stated: the tokens carried forward are each the last token of
\* the input containing some accepted stem, every matched stem has its
\* last token carried, and no token is carried forward more than once.
C8_CarriedTokensDistinct ==
    scan.pc = "done"
        => LET pt == scan.potential_tokens
           IN  /\ \A k \in DOMAIN pt :
                     \E s \in Range(proj_id_stems) : IsLastWith(s, pt[k])
               /\ \A s \in Range(proj_id_stems), x \in Range(tokens) :
                     IsLastWith(s, x) => x \in Range(pt)
               /\ \A i, j \in DOMAIN pt : i # j => pt[i] # pt[j]

\* C8 as amended: the tokens carried forward form a list with one entry
\* per accepted stem that occurs in some token, the entry of a stem being
\* the last token of the input that contains it; a token that is the last
\* match of n stems is carried forward n times.
C8_OneEntryPerMatchedStem ==
    scan.pc = "done"
        => LET pt == scan.potential_tokens
           IN  \A x \in Range(tokens) \cup Range(pt) :
                  Cardinality({k \in DOMAIN pt : pt[k] = x})
                     = Cardinality({s \in Range(proj_id_stems) :
                                       IsLastWith(s, x)})

\* a token with two stems is carried forward twice, after an earlier
\* token with one of the stems was dropped
C8_Witness ==
    /\ scan.pc = "done"
    /\ tokens = <<ERP \o <<"1", "1", "1">>, ERP \o <<"1">> \o SRP \o <<"2">>>>
    /\ scan.potential_tokens
          = <<ERP \o <<"1">> \o SRP \o <<"2">>, ERP \o <<"1">> \o SRP \o <<"2">>>>

(***************************************************************************)
(* Properties of the document tokenizer, checked under SpecDoc             *)
(***************************************************************************)
\* the reference begins with the DOI prefix "10.1"
BeginsWithDoiPrefix(path) ==
    Len(path) >= 4 /\ SubSeq(path, 1, 4) = <<"1", "0", ".", "1">>

\* C4: a document reference that begins with a DOI prefix is rewritten to
\* "https://doi.org/<doi>" and handled as a remote reference: an HTTP GET
\* is issued on the rewritten URL and no local path is opened.
C4_DoiFetchedFromResolver ==
    (doc.pc = "done" /\ BeginsWithDoiPrefix(filepath))
        => /\ doc.gets = <<DoiResolver \o filepath>>
           /\ doc.opened = <<>>

====
